---- MODULE Spec2Model ----
(***************************************************************************)
(* State-machine model of the merchant registration form                   *)
(* (src/components/new-merchant-form.tsx).                                 *)
(*                                                                         *)
(* The component state is the six useState cells plus the form status of   *)
(* the <form action>.  Every event handler is one action up to its first   *)
(* await; every continuation after an await is another action.  React      *)
(* re-renders between two macrotasks, so a handler started by a user event *)
(* closes over the state current at that event; the closure of an upload   *)
(* batch is kept in the batch record (closureImages) because the           *)
(* continuation of handleImageUpload reads it after the await.             *)
(*                                                                         *)
(* Coordinates are fixed-point numbers in units of 1/10000 degree.         *)
(***************************************************************************)
EXTENDS Integers, Sequences, FiniteSets, TLC

VARIABLES
    location,       \* useState(CHIANG_MAI)
    address,        \* useState("")
    images,         \* useState<string[]>([])
    isLoaded,       \* useLoadScript().isLoaded
    geocoder,       \* useState<Geocoder | null>(null): TRUE when set
    error,          \* useState<string | null>(null): <<>> is null, <<m>> is message m
    isProcessing,   \* useState(false)
    pending,        \* useFormStatus().pending of the form action
    inputValue,     \* e.target.value of the file input ("" when cleared)
    inflight,       \* handleImageUpload calls suspended at await Promise.all
    geocodes,       \* geocoder.geocode calls awaiting their response
    onSubmitCalls,  \* onSubmit(formData) calls awaiting their promise
    last            \* the handler step taken last, with its arguments

vars == <<location, address, images, isLoaded, geocoder, error, isProcessing,
          pending, inputValue, inflight, geocodes, onSubmitCalls, last>>

(***************************************************************************)
(* Bounds of the model                                                     *)
(***************************************************************************)
MaxBatch == 2       \* files in one file selection
MaxImages == 3      \* length of the image list
MaxInFlight == 2    \* upload batches suspended at the same time
MaxGeo == 1         \* geocode requests awaiting a response
MaxCalls == 2       \* onSubmit calls awaiting their promise
MaxOverlap == 2     \* geocode requests in flight together when only geocoding is studied
Spread == 2         \* decoded image sides tried around 1, 1024 and 2048 pixels

(***************************************************************************)
(* Program constants                                                       *)
(***************************************************************************)
CHIANG_MAI == [lat |-> 187883, lng |-> 989853]
MAX_IMAGE_SIZE == 5 * 1024 * 1024
MAX_UPLOAD_SIZE == 1024 * 1024
MIN_IMAGES == 3
JPEG_HEADER == "data:image/jpeg;base64"

Null == <<>>
Some(m) == <<m>>

ERR_STILL_TOO_LARGE == "Images are still too large after compression. Please try smaller images."
ERR_PROCESS == "Failed to process images. Please try again."
ERR_MIN_IMAGES == "Please upload at least 3 images"
ERR_REGISTER == "An error occurred while registering"

(***************************************************************************)
(* Files the user can select.  size is File.size; width and height are     *)
(* img.width and img.height of the decoded image; base64Length is the      *)
(* length of the payload canvas.toDataURL produces for a canvas that holds *)
(* pixels of the file's image.                                             *)
(***************************************************************************)
File(name, size, base64Length, width, height) ==
    [name |-> name, size |-> size, base64Length |-> base64Length,
     width |-> width, height |-> height]

Files ==
    { File("a.jpg", 5 * 1024 * 1024, 1000, 800, 600),
      File("b.jpg", 2 * 1024 * 1024, 1398101, 4000, 3000),
      File("c.jpg", 5 * 1024 * 1024 + 1, 1000, 6000, 4000),
      File("e.jpg", 1024, 1398102, 1024, 1024) }

RECURSIVE SeqsUpTo(_, _)
SeqsUpTo(S, n) ==
    IF n = 0 THEN {<<>>}
    ELSE LET shorter == SeqsUpTo(S, n - 1)
         IN  shorter \cup {Append(s, x) : s \in shorter, x \in S}

\* e.target.files of a change event of the file input
Selections == SeqsUpTo(Files, MaxBatch)

\* e.target.value of a file input: "" without a selection, else a fake path
\* (image.jpg stands for the name of the first selected file)
FakePath(files) == IF files = <<>> THEN "" ELSE "C:\\fakepath\\" \o "image.jpg"

(***************************************************************************)
(* Pure helpers of the handlers                                            *)
(***************************************************************************)
RECURSIVE Join(_, _)
Join(names, sep) ==
    IF names = <<>> THEN ""
    ELSE IF Len(names) = 1 THEN names[1]
    ELSE names[1] \o sep \o Join(Tail(names), sep)

IsOversized(file) == file.size > MAX_IMAGE_SIZE

OversizedFiles_FirstOnly(files) ==
    IF SelectSeq(files, IsOversized) = <<>> THEN <<>> ELSE <<SelectSeq(files, IsOversized)[1]>>

\* Array.from(e.target.files).filter(...), line 128
OversizedFiles(files) == SelectSeq(files, IsOversized)

\* oversizedFiles.map(f => f.name)
FileNames(files) == [i \in DOMAIN files |-> files[i].name]

OversizedMessage(oversizedFiles) ==
    "Some images are too large (max "
        \o ToString((MAX_IMAGE_SIZE \div 1024) \div 1024)
        \o "MB): " \o Join(FileNames(oversizedFiles), ", ")

MathRound_Floor(a, b) == a \div b

\* Math.round(a / b) for a >= 0 and b > 0: the nearest integer, a half rounds up
MathRound(a, b) == (2 * a + b) \div (2 * b)

\* canvas.width and canvas.height computed by compressImage, lines 24-41
CanvasSize(imgWidth, imgHeight) ==
    IF imgWidth > imgHeight
    THEN IF imgWidth > 1024
         THEN [width |-> 1024, height |-> MathRound(imgHeight * 1024, imgWidth)]
         ELSE [width |-> imgWidth, height |-> imgHeight]
    ELSE IF imgHeight > 1024
         THEN [width |-> MathRound(imgWidth * 1024, imgHeight), height |-> 1024]
         ELSE [width |-> imgWidth, height |-> imgHeight]

\* canvas.toDataURL('image/jpeg', 0.7): header, comma, base64 payload.  A canvas
\* without pixels (a dimension is 0) serialises to "data:,", with no payload.
DataUrl(file) ==
    LET canvas == CanvasSize(file.width, file.height)
    IN  IF canvas.width = 0 \/ canvas.height = 0
        THEN [header |-> "data:", src |-> file.name, base64Length |-> 0,
              width |-> canvas.width, height |-> canvas.height]
        ELSE [header |-> JPEG_HEADER, src |-> file.name, base64Length |-> file.base64Length,
              width |-> canvas.width, height |-> canvas.height]

ExceedsUploadSize_RawCeiling(dataUrl) == dataUrl.base64Length * 3 > MAX_IMAGE_SIZE * 4

\* dataUrl.split(',')[1].length * 0.75 > MAX_UPLOAD_SIZE, in integers
ExceedsUploadSize(dataUrl) == dataUrl.base64Length * 3 > MAX_UPLOAD_SIZE * 4

TooLarge_FirstOnly(compressedImages) ==
    compressedImages # <<>> /\ ExceedsUploadSize(compressedImages[1])

\* compressedImages.some(...), lines 145-149
TooLarge(compressedImages) ==
    \E i \in DOMAIN compressedImages : ExceedsUploadSize(compressedImages[i])

AppendImages_Prepend(closureImages, compressedImages) == compressedImages \o closureImages

\* [...images, ...compressedImages], line 157
AppendImages(closureImages, compressedImages) == closureImages \o compressedImages

FileInputDisabled_Never == FALSE

\* disabled={isProcessing} on the file input
FileInputDisabled == isProcessing

\* disabled={pending} on the submit button
SubmitDisabled == pending

(***************************************************************************)
(* JSON.stringify of the location object.  A coordinate n stands for the   *)
(* number n / 10000; JSON prints it in shortest form: no trailing zeros    *)
(* in the fraction and no fraction at all for an integer.                  *)
(***************************************************************************)
Abs(n) == IF n < 0 THEN 0 - n ELSE n

FractionDigits(f) ==
    LET d1 == f \div 1000
        d2 == (f \div 100) % 10
        d3 == (f \div 10) % 10
        d4 == f % 10
    IN  IF d4 # 0 THEN ToString(d1) \o ToString(d2) \o ToString(d3) \o ToString(d4)
        ELSE IF d3 # 0 THEN ToString(d1) \o ToString(d2) \o ToString(d3)
        ELSE IF d2 # 0 THEN ToString(d1) \o ToString(d2)
        ELSE ToString(d1)

NumberToJSON(n) ==
    LET whole == Abs(n) \div 10000
        frac == Abs(n) % 10000
    IN  (IF n < 0 THEN "-" ELSE "")
            \o ToString(whole)
            \o (IF frac = 0 THEN "" ELSE "." \o FractionDigits(frac))

JSONStringify(loc) ==
    "{\"lat\":" \o NumberToJSON(loc.lat) \o ",\"lng\":" \o NumberToJSON(loc.lng) \o "}"

HiddenLocationValue_Initial(loc) == JSONStringify(CHIANG_MAI)

\* value={JSON.stringify(location)} of the hidden input named "location"
HiddenLocationValue(loc) == JSONStringify(loc)

\* the FormData the browser builds from the rendered form at submit time: the
\* fields rendered from state by hidden inputs (lines 233-237 and 266-273)
FormData == [location |-> HiddenLocationValue(location), images |-> images]

(***************************************************************************)
(* Inputs of the environment                                               *)
(***************************************************************************)
\* the places the geocoding service knows: formatted address and coordinates
Places ==
    { [formatted_address |-> "Nimmanhaemin Rd", location |-> [lat |-> 187900, lng |-> -5000]],
      [formatted_address |-> "Tha Phae Gate", location |-> [lat |-> 187877, lng |-> 989932]] }

\* the places the user of the whole form clicks on and types the address of
VisitedPlaces == {place \in Places : place.formatted_address = "Nimmanhaemin Rd"}

\* e.latLng of a click on the map
ClickPoints == {place.location : place \in VisitedPlaces}

\* e.target.value of a change of the address input
TypedAddresses == {""} \cup {place.formatted_address : place \in VisitedPlaces}

\* response.results of geocoder.geocode(request) when the service finds the place
GeocoderResults(request) ==
    IF request.kind = "reverse"
    THEN {<<[formatted_address |-> place.formatted_address]>> :
             place \in {pl \in Places : pl.location = request.location}}
    ELSE {<<[geometry |-> [location |-> place.location]]>> :
             place \in {pl \in Places : pl.formatted_address = request.address}}

\* how geocoder.geocode(request) can settle: results, no result, or an exception
GeocoderResponses(request) ==
    {[outcome |-> "results", results |-> results] : results \in GeocoderResults(request)}
        \cup {[outcome |-> "results", results |-> <<>>],
              [outcome |-> "throws", results |-> <<>>]}

\* what the promise of onSubmit can reject with: an Error with a message, an
\* Error without one, an object that is no Error and has a message, and a value
\* that is no Error and has none
Thrown ==
    { [isError |-> TRUE, message |-> "Merchant already exists"],
      [isError |-> TRUE, message |-> ""],
      [isError |-> FALSE, message |-> "rejected"],
      [isError |-> FALSE, message |-> ""] }

RemoveAt(s, k) == [i \in 1..(Len(s) - 1) |-> IF i < k THEN s[i] ELSE s[i + 1]]

(***************************************************************************)
(* Initial state: the values given to useState                             *)
(***************************************************************************)
Init ==
    /\ location = CHIANG_MAI
    /\ address = ""
    /\ images = <<>>
    /\ isLoaded = FALSE
    /\ geocoder = FALSE
    /\ error = Null
    /\ isProcessing = FALSE
    /\ pending = FALSE
    /\ inputValue = ""
    /\ inflight = <<>>
    /\ geocodes = <<>>
    /\ onSubmitCalls = <<>>
    /\ last = [op |-> "mount", arg |-> ""]

(***************************************************************************)
(* Google Maps script and geocoder                                         *)
(***************************************************************************)
ScriptLoaded ==
    /\ ~isLoaded
    /\ isLoaded' = TRUE
    /\ last' = [op |-> "script_loaded", arg |-> ""]
    /\ UNCHANGED <<location, address, images, geocoder, error, isProcessing,
                   pending, inputValue, inflight, geocodes, onSubmitCalls>>

GeocoderEffect ==
    /\ isLoaded
    /\ ~geocoder
    /\ geocoder' = TRUE
    /\ last' = [op |-> "geocoder_set", arg |-> ""]
    /\ UNCHANGED <<location, address, images, isLoaded, error, isProcessing,
                   pending, inputValue, inflight, geocodes, onSubmitCalls>>

(***************************************************************************)
(* handleMapClick and handleAddressChange, up to the await                 *)
(***************************************************************************)
HandleMapClick(latLng) ==
    /\ isLoaded
    /\ last' = [op |-> "map_click", arg |-> latLng]
    /\ IF ~geocoder
       THEN UNCHANGED <<location, geocodes>>
       ELSE /\ location' = latLng
            /\ geocodes' = Append(geocodes, [kind |-> "reverse", location |-> latLng])
    /\ UNCHANGED <<address, images, isLoaded, geocoder, error, isProcessing,
                   pending, inputValue, inflight, onSubmitCalls>>

HandleAddressChange(newAddress) ==
    /\ last' = [op |-> "address_change", arg |-> newAddress]
    /\ address' = newAddress
    /\ IF ~geocoder \/ newAddress = ""
       THEN UNCHANGED geocodes
       ELSE geocodes' = Append(geocodes, [kind |-> "forward", address |-> newAddress])
    /\ UNCHANGED <<location, images, isLoaded, geocoder, error, isProcessing,
                   pending, inputValue, inflight, onSubmitCalls>>

(***************************************************************************)
(* The continuation of a handler after await geocoder.geocode(...)         *)
(***************************************************************************)
ErrorAfterGeocodeCatch_Shown == Some("Geocoding error")

\* the catch blocks of lines 101-103 and 119-121 only log: Error stays as it is
ErrorAfterGeocodeCatch == error

ResultApplied_LatestOnly(k) == k = Len(geocodes)

\* between the await and the setter (lines 97-99, 113-117) nothing asks whether a
\* later call has been issued: the result of call k is applied in every case
ResultApplied(k) == TRUE

GeocodeSettled(k, response) ==
    /\ k \in DOMAIN geocodes
    /\ response \in GeocoderResponses(geocodes[k])
    /\ geocodes' = RemoveAt(geocodes, k)
    /\ last' = [op |-> "geocode_settled", arg |-> ""]
    /\ IF response.outcome = "results" /\ response.results # <<>> /\ ResultApplied(k)
       THEN IF geocodes[k].kind = "reverse"
            THEN /\ address' = response.results[1].formatted_address
                 /\ UNCHANGED location
            ELSE /\ location' = response.results[1].geometry.location
                 /\ UNCHANGED address
       ELSE UNCHANGED <<location, address>>
    /\ error' = IF response.outcome = "throws" THEN ErrorAfterGeocodeCatch ELSE error
    /\ UNCHANGED <<images, isLoaded, geocoder, isProcessing,
                   pending, inputValue, inflight, onSubmitCalls>>

(***************************************************************************)
(* handleImageUpload, up to await Promise.all(...)                         *)
(***************************************************************************)
\* the errors compressImage rejects with (img.onerror, no 2d context)
CompressErrors == {"Failed to load image", "Failed to get canvas context"}

Pending == [state |-> "pending"]
Fulfilled(value) == [state |-> "fulfilled", value |-> value]
Rejected(reason) == [state |-> "rejected", reason |-> reason]

\* lines 128-133: some file is over MAX_IMAGE_SIZE
UploadOversized(files) ==
    /\ ~FileInputDisabled
    /\ OversizedFiles(files) # <<>>
    /\ error' = Some(OversizedMessage(OversizedFiles(files)))
    /\ inputValue' = ""
    /\ last' = [op |-> "upload", arg |-> "oversized"]
    /\ UNCHANGED <<location, address, images, isLoaded, geocoder, isProcessing,
                   pending, inflight, geocodes, onSubmitCalls>>

ErrorOnStart_Kept == error

\* setError(null), line 136
ErrorOnStart == Null

\* lines 135-142: every compressImage(file) is started and the handler awaits
UploadStart(files) ==
    /\ ~FileInputDisabled
    /\ files # <<>>
    /\ OversizedFiles(files) = <<>>
    /\ Len(inflight) < MaxInFlight
    /\ Len(images) + Len(files) <= MaxImages
    /\ isProcessing' = TRUE
    /\ error' = ErrorOnStart
    /\ inputValue' = FakePath(files)
    /\ inflight' = Append(inflight, [files |-> files, closureImages |-> images,
                                     results |-> [i \in DOMAIN files |-> Pending]])
    /\ last' = [op |-> "upload", arg |-> "started"]
    /\ UNCHANGED <<location, address, images, isLoaded, geocoder,
                   pending, geocodes, onSubmitCalls>>

FinallyIsProcessing_OnlyOnSuccess(outcome) == outcome # "appended"

\* the finally block, line 163
FinallyIsProcessing(outcome) == FALSE

\* lines 135-164 for an empty FileList: Promise.all([]) is already resolved,
\* so the continuation runs in the same task as the handler.  The browser fires
\* the change event for an empty selection when it replaces a selection.
UploadEmpty ==
    /\ ~FileInputDisabled
    /\ inputValue # ""
    /\ error' = ErrorOnStart
    /\ images' = AppendImages(images, <<>>)
    /\ isProcessing' = FinallyIsProcessing("appended")
    /\ inputValue' = FakePath(<<>>)
    /\ last' = [op |-> "upload_finished", arg |-> "appended"]
    /\ UNCHANGED <<location, address, isLoaded, geocoder,
                   pending, inflight, geocodes, onSubmitCalls>>

(***************************************************************************)
(* compressImage(file) settles.  Promise.all settles with the first        *)
(* rejection or with the last fulfilment, and the continuation of          *)
(* handleImageUpload runs in the microtasks of the same task.              *)
(***************************************************************************)
Values(results) == [i \in DOMAIN results |-> results[i].value]

\* a fulfilment that leaves another compression of the batch pending
ImageCompressed(k, i) ==
    /\ k \in DOMAIN inflight
    /\ i \in DOMAIN inflight[k].files
    /\ inflight[k].results[i] = Pending
    /\ \E j \in DOMAIN inflight[k].files : j # i /\ inflight[k].results[j] = Pending
    /\ inflight' = [inflight EXCEPT ![k].results[i] = Fulfilled(DataUrl(inflight[k].files[i]))]
    /\ last' = [op |-> "image_compressed", arg |-> ""]
    /\ UNCHANGED <<location, address, images, isLoaded, geocoder, error, isProcessing,
                   pending, inputValue, geocodes, onSubmitCalls>>

\* the last fulfilment: lines 144-157 and 163
BatchCompressed(k, i) ==
    /\ k \in DOMAIN inflight
    /\ i \in DOMAIN inflight[k].files
    /\ inflight[k].results[i] = Pending
    /\ \A j \in DOMAIN inflight[k].files : j # i => inflight[k].results[j] # Pending
    /\ LET results == [inflight[k].results EXCEPT ![i] = Fulfilled(DataUrl(inflight[k].files[i]))]
           compressedImages == Values(results)
       IN  /\ IF TooLarge(compressedImages)
              THEN /\ error' = Some(ERR_STILL_TOO_LARGE)
                   /\ last' = [op |-> "upload_finished", arg |-> "too_large"]
                   /\ inputValue' = ""
                   /\ isProcessing' = FinallyIsProcessing("too_large")
                   /\ UNCHANGED images
              ELSE /\ images' = AppendImages(inflight[k].closureImages, compressedImages)
                   /\ isProcessing' = FinallyIsProcessing("appended")
                   /\ last' = [op |-> "upload_finished", arg |-> "appended"]
                   /\ UNCHANGED <<error, inputValue>>
    /\ inflight' = RemoveAt(inflight, k)
    /\ UNCHANGED <<location, address, isLoaded, geocoder,
                   pending, geocodes, onSubmitCalls>>

\* a rejection (img.onerror, or no 2d context in img.onload): lines 158-163
BatchFailed(k, i, reason) ==
    /\ k \in DOMAIN inflight
    /\ i \in DOMAIN inflight[k].files
    /\ inflight[k].results[i] = Pending
    /\ reason \in CompressErrors
    /\ error' = Some(ERR_PROCESS)
    /\ inputValue' = ""
    /\ isProcessing' = FinallyIsProcessing("failed")
    /\ inflight' = RemoveAt(inflight, k)
    /\ last' = [op |-> "upload_finished", arg |-> "failed"]
    /\ UNCHANGED <<location, address, images, isLoaded, geocoder,
                   pending, geocodes, onSubmitCalls>>

(***************************************************************************)
(* handleSubmit, the action of the form                                    *)
(***************************************************************************)
TooFewImages_OffByOne(closureImages) == Len(closureImages) < MIN_IMAGES - 1

\* line 170
TooFewImages(closureImages) == Len(closureImages) < MIN_IMAGES

\* lines 169-173: the local rejection; the action ends in the same task
SubmitRejected ==
    /\ ~SubmitDisabled
    /\ TooFewImages(images)
    /\ error' = Some(ERR_MIN_IMAGES)
    /\ last' = [op |-> "submit", arg |-> "rejected"]
    /\ UNCHANGED <<location, address, images, isLoaded, geocoder, isProcessing,
                   pending, inputValue, inflight, geocodes, onSubmitCalls>>

\* lines 169-174: onSubmit(formData) is called and awaited
SubmitCalled ==
    /\ ~SubmitDisabled
    /\ ~TooFewImages(images)
    /\ Len(onSubmitCalls) < MaxCalls
    /\ error' = Null
    /\ pending' = TRUE
    /\ onSubmitCalls' = Append(onSubmitCalls, FormData)
    /\ last' = [op |-> "submit", arg |-> "called"]
    /\ UNCHANGED <<location, address, images, isLoaded, geocoder, isProcessing,
                   inputValue, inflight, geocodes>>

\* the promise of onSubmit resolves: handleSubmit returns
OnSubmitResolved(k) ==
    /\ k \in DOMAIN onSubmitCalls
    /\ onSubmitCalls' = RemoveAt(onSubmitCalls, k)
    /\ pending' = (Len(onSubmitCalls) > 1)
    /\ last' = [op |-> "submit_settled", arg |-> "resolved"]
    /\ UNCHANGED <<location, address, images, isLoaded, geocoder, error, isProcessing,
                   inputValue, inflight, geocodes>>

\* line 176
ErrorText(err) == IF err.isError THEN err.message ELSE ERR_REGISTER

\* the promise of onSubmit rejects: lines 175-178
OnSubmitThrew(k, err) ==
    /\ k \in DOMAIN onSubmitCalls
    /\ onSubmitCalls' = RemoveAt(onSubmitCalls, k)
    /\ pending' = (Len(onSubmitCalls) > 1)
    /\ error' = Some(ErrorText(err))
    /\ last' = [op |-> "submit_settled", arg |-> "threw"]
    /\ UNCHANGED <<location, address, images, isLoaded, geocoder, isProcessing,
                   inputValue, inflight, geocodes>>

(***************************************************************************)
(* The component                                                           *)
(***************************************************************************)
Next ==
    \/ ScriptLoaded
    \/ GeocoderEffect
    \/ \E latLng \in ClickPoints : HandleMapClick(latLng) /\ Len(geocodes') <= MaxGeo
    \/ \E newAddress \in TypedAddresses :
           HandleAddressChange(newAddress) /\ Len(geocodes') <= MaxGeo
    \/ \E k \in DOMAIN geocodes : \E response \in GeocoderResponses(geocodes[k]) :
           GeocodeSettled(k, response)
    \/ \E files \in Selections : UploadOversized(files)
    \/ \E files \in Selections : UploadStart(files)
    \/ UploadEmpty
    \/ \E k \in 1..MaxInFlight, i \in 1..MaxBatch : ImageCompressed(k, i)
    \/ \E k \in 1..MaxInFlight, i \in 1..MaxBatch : BatchCompressed(k, i)
    \/ \E k \in 1..MaxInFlight, i \in 1..MaxBatch :
           \E reason \in CompressErrors : BatchFailed(k, i, reason)
    \/ SubmitRejected
    \/ SubmitCalled
    \/ \E k \in 1..MaxCalls : OnSubmitResolved(k)
    \/ \E k \in 1..MaxCalls, err \in Thrown : OnSubmitThrew(k, err)

Spec == Init /\ [][Next]_vars

\* a started compressImage settles: img.onload or img.onerror fires
CompressionSettles ==
    \E k \in DOMAIN inflight : \E i \in DOMAIN inflight[k].files :
        \/ ImageCompressed(k, i)
        \/ BatchCompressed(k, i)
        \/ \E reason \in CompressErrors : BatchFailed(k, i, reason)

\* every compression eventually resolves or rejects
LiveSpec == Init /\ [][Next]_vars /\ WF_vars(CompressionSettles)

(***************************************************************************)
(* compressImage over decoded images of many sizes: one single-file batch  *)
(* is ingested into the empty image list, the file being an image of any   *)
(* width and height among Sides.                                           *)
(***************************************************************************)
\* img.width and img.height: small sides, sides around the 1024-pixel limit, and
\* sides around twice the limit
Sides ==
    (1..(1 + Spread)) \cup ((1024 - Spread)..(1024 + Spread))
        \cup ((2048 - Spread)..(2048 + Spread))

\* e.target.files holding one image of the given dimensions
DecodedSelections ==
    {<<File("photo.jpg", 1024, 1000, width, height)>> : width \in Sides, height \in Sides}

CompressNext ==
    \/ \E files \in DecodedSelections : images = <<>> /\ UploadStart(files)
    \/ \E k \in 1..MaxInFlight, i \in 1..MaxBatch : BatchCompressed(k, i)
    \/ \E k \in 1..MaxInFlight, i \in 1..MaxBatch :
           \E reason \in CompressErrors : BatchFailed(k, i, reason)

CompressSpec == Init /\ [][CompressNext]_vars

(***************************************************************************)
(* Location and Address synchronisation alone: clicks on and addresses of  *)
(* every known place, with several geocode calls in flight together.       *)
(***************************************************************************)
GeoNext ==
    \/ ScriptLoaded
    \/ GeocoderEffect
    \/ \E place \in Places : HandleMapClick(place.location) /\ Len(geocodes') <= MaxOverlap
    \/ \E newAddress \in {""} \cup {place.formatted_address : place \in Places} :
           HandleAddressChange(newAddress) /\ Len(geocodes') <= MaxOverlap
    \/ \E k \in DOMAIN geocodes : \E response \in GeocoderResponses(geocodes[k]) :
           GeocodeSettled(k, response)

GeoSpec == Init /\ [][GeoNext]_vars

(***************************************************************************)
(* Helpers of the properties                                               *)
(***************************************************************************)
IsPrefix(s, t) == Len(s) <= Len(t) /\ SubSeq(t, 1, Len(s)) = s

\* a step taken by handleSubmit
IsSubmit == last'.op = "submit"

(***************************************************************************)
(* C1.  A submit issued while the image list has fewer than 3 entries      *)
(* never calls onSubmit and leaves Error set to the insufficient-image     *)
(* message; onSubmit is only ever called when the list has at least 3      *)
(* entries.                                                                *)
(***************************************************************************)
C1_SubmissionGate ==
    [][ /\ (IsSubmit /\ Len(images) < 3) =>
              /\ onSubmitCalls' = onSubmitCalls
              /\ error' = <<"Please upload at least 3 images">>
        /\ (onSubmitCalls' # onSubmitCalls /\ Len(onSubmitCalls') > Len(onSubmitCalls)) =>
              /\ Len(images) >= 3
              /\ Len(onSubmitCalls'[Len(onSubmitCalls')].images) >= 3 ]_vars

\* a submit with two images has just been rejected locally
C1_Witness ==
    /\ last = [op |-> "submit", arg |-> "rejected"]
    /\ Len(images) = 2
    /\ error = <<"Please upload at least 3 images">>
    /\ onSubmitCalls = <<>>

(***************************************************************************)
(* What the properties expect of a batch, from the files alone             *)
(***************************************************************************)
OverRawCeiling(file) == file.size > 5 * 1024 * 1024

\* 0.75 * base64Length > 1 MiB
OverUploadCeiling(file) == 3 * file.base64Length > 4 * 1024 * 1024

EncodedEntries(files) == [j \in DOMAIN files |-> DataUrl(files[j])]

\* batch k finishes in this step because its last compression is fulfilled
FinishesFulfilled(k) == \E i \in DOMAIN inflight[k].files : BatchCompressed(k, i)

\* batch k finishes in this step because one of its compressions is rejected
FinishesRejected(k) ==
    \E i \in DOMAIN inflight[k].files : \E reason \in CompressErrors : BatchFailed(k, i, reason)

(***************************************************************************)
(* C2.  When every file of a batch is at most 5 MiB and every compressed   *)
(* result at most 1 MiB, the ingest appends exactly one encoded entry per  *)
(* file, in selection order, to the end of the image list and changes no   *)
(* existing entry.                                                         *)
(***************************************************************************)
C2_SuccessfulIngest ==
    [][ /\ last'.op = "upload_finished" => \A k \in DOMAIN inflight :
              (/\ FinishesFulfilled(k)
               /\ \A j \in DOMAIN inflight[k].files :
                      /\ ~OverRawCeiling(inflight[k].files[j])
                      /\ ~OverUploadCeiling(inflight[k].files[j]))
              => images' = images \o EncodedEntries(inflight[k].files)
        /\ UploadEmpty => images' = images ]_vars

\* a two-file batch has just been appended, in order, behind an earlier entry
C2_Witness ==
    /\ last = [op |-> "upload_finished", arg |-> "appended"]
    /\ Len(images) = 3
    /\ images[2].src = "b.jpg"
    /\ images[3].src = "a.jpg"
    /\ inflight = <<>>

(***************************************************************************)
(* C3.  For an ingest that passed the pre-compression check: if one        *)
(* compression fails or one compressed result exceeds 1 MiB, Error is set  *)
(* and the image list is unchanged by the call, so the list never holds    *)
(* only part of a batch.                                                   *)
(***************************************************************************)
C3_BatchAtomicity ==
    [][ last'.op = "upload_finished" => \A k \in DOMAIN inflight :
            (\/ FinishesRejected(k)
             \/ /\ FinishesFulfilled(k)
                /\ \E j \in DOMAIN inflight[k].files : OverUploadCeiling(inflight[k].files[j]))
            => /\ error' # Null
               /\ images' = images
               /\ images' = inflight[k].closureImages ]_vars

\* a batch whose second file is too large after compression has just been
\* rejected whole, with an image already in the list
C3_Witness ==
    /\ last = [op |-> "upload_finished", arg |-> "too_large"]
    /\ error = <<ERR_STILL_TOO_LARGE>>
    /\ Len(images) = 1
    /\ inputValue = ""
    /\ ~isProcessing

(***************************************************************************)
(* C4.  For a batch with a file over 5 MiB the ingest sets Error to a      *)
(* message naming every oversized file, clears the file input, leaves the  *)
(* image list and the Processing flag unchanged and starts no compression. *)
(***************************************************************************)
OversizedSelections == {files \in Selections : \E j \in DOMAIN files : OverRawCeiling(files[j])}

\* the message the claim expects for a selection
ExpectedMessage ==
    [files \in OversizedSelections |->
        "Some images are too large (max 5MB): "
            \o Join(FileNames(SelectSeq(files, OverRawCeiling)), ", ")]

\* the Error handleImageUpload sets when it rejects a selection
RejectionError ==
    [files \in OversizedSelections |-> Some(OversizedMessage(OversizedFiles(files)))]

RejectionErrors == {RejectionError[files] : files \in OversizedSelections}

\* for every Error a rejection can set, the messages the claim expects for the
\* selections that are rejected with it
ExpectedErrors ==
    [e \in RejectionErrors |->
        {<<ExpectedMessage[files]>> : files \in {f \in OversizedSelections : RejectionError[f] = e}}]

C4_PreCompressionRejection ==
    [][ last'.op = "upload" =>
          /\ last'.arg = "started" =>
                \A j \in DOMAIN inflight'[Len(inflight')].files :
                    ~OverRawCeiling(inflight'[Len(inflight')].files[j])
          /\ last'.arg = "oversized" =>
                /\ inputValue' = ""
                /\ images' = images
                /\ isProcessing' = isProcessing
                /\ inflight' = inflight
                /\ error' \in RejectionErrors
                /\ ExpectedErrors[error'] = {error'} ]_vars

\* a selection of two oversized files has just been rejected
C4_Witness ==
    /\ last = [op |-> "upload", arg |-> "oversized"]
    /\ error = <<"Some images are too large (max 5MB): c.jpg, c.jpg">>
    /\ inputValue = ""
    /\ Len(images) = 1
    /\ ~isProcessing

(***************************************************************************)
(* C5.  Processing is released: whenever Processing is true it is          *)
(* eventually false again, provided every compression settles, and         *)
(* Processing is false whenever no batch is unfinished.                    *)
(***************************************************************************)
C5_ProcessingReleased ==
    /\ [](inflight = <<>> => ~isProcessing)
    /\ (isProcessing ~> ~isProcessing)

\* a batch has just failed and Processing is false again
C5_Witness ==
    /\ last = [op |-> "upload_finished", arg |-> "failed"]
    /\ inflight = <<>>
    /\ ~isProcessing
    /\ error = <<ERR_PROCESS>>

(***************************************************************************)
(* C6.  The image list is append-only: every step leaves its previous      *)
(* value as a prefix of its new value.                                     *)
(***************************************************************************)
C6_AppendOnly == [][IsPrefix(images, images')]_vars

\* a batch has just been appended behind the entries of an earlier batch
C6_Witness ==
    /\ last = [op |-> "upload_finished", arg |-> "appended"]
    /\ Len(images) = 2
    /\ images[1].src = "a.jpg"
    /\ images[2].src = "b.jpg"
    /\ inputValue # ""

(***************************************************************************)
(* C7.  While an upload batch has started compression and has not          *)
(* finished, the Processing flag is true.                                  *)
(***************************************************************************)
C7_ProcessingTracksInFlight == inflight # <<>> => isProcessing

\* a batch with one compression fulfilled and one still pending
C7_Witness ==
    /\ Len(inflight) = 1
    /\ Len(inflight[1].files) = 2
    /\ inflight[1].results[1] = Pending
    /\ inflight[1].results[2] # Pending
    /\ isProcessing

(***************************************************************************)
(* C8.  Whenever Processing is true or a call of onSubmit is pending, the  *)
(* submit button is disabled.                                              *)
(***************************************************************************)
C8_SubmitGating == (isProcessing \/ onSubmitCalls # <<>>) => SubmitDisabled

(***************************************************************************)
(* C9.  A submit issued while the image list has at least 3 entries calls  *)
(* onSubmit exactly once, with a location field equal to the JSON text of  *)
(* the Location current at the submit.                                     *)
(***************************************************************************)
C9_AcceptedSubmission ==
    [][ (IsSubmit /\ Len(images) >= 3) =>
            /\ Len(onSubmitCalls') = Len(onSubmitCalls) + 1
            /\ IsPrefix(onSubmitCalls, onSubmitCalls')
            /\ LET field == onSubmitCalls'[Len(onSubmitCalls')].location
               IN  /\ field = JSONStringify(location)
                   /\ location = [lat |-> 187883, lng |-> 989853]
                          => field = "{\"lat\":18.7883,\"lng\":98.9853}"
                   /\ location = [lat |-> 187900, lng |-> -5000]
                          => field = "{\"lat\":18.79,\"lng\":-0.5}" ]_vars

\* onSubmit has just been called with the coordinates of a map click
C9_Witness ==
    /\ last = [op |-> "submit", arg |-> "called"]
    /\ location = [lat |-> 187900, lng |-> -5000]
    /\ Len(onSubmitCalls) = 1
    /\ onSubmitCalls[1].location = "{\"lat\":18.79,\"lng\":-0.5}"
    /\ pending

SubmitErrors ==
    {ERR_MIN_IMAGES, ERR_REGISTER, "Merchant already exists", ""}

IsRounded(r, a, b) == 2 * r * b <= 2 * a + b /\ 2 * a + b < 2 * (r + 1) * b

ExpectedCanvas(w, h, canvasWidth, canvasHeight) ==
    /\ (w <= 1024 /\ h <= 1024) => (canvasWidth = w /\ canvasHeight = h)
    /\ (w > 1024 /\ w >= h) =>
           (canvasWidth = 1024 /\ IsRounded(canvasHeight, h * 1024, w))
    /\ (h > 1024 /\ h >= w) =>
           (canvasHeight = 1024 /\ IsRounded(canvasWidth, w * 1024, h))
    /\ canvasWidth <= 1024
    /\ canvasHeight <= 1024

C11_CompressionDimensions ==
    [][ last' = [op |-> "upload_finished", arg |-> "appended"] =>
          \A k \in DOMAIN inflight : FinishesFulfilled(k) =>
              \A j \in DOMAIN inflight[k].files :
                  /\ inflight[k].files[j].width >= 1
                  /\ inflight[k].files[j].height >= 1
                  /\ ExpectedCanvas(inflight[k].files[j].width, inflight[k].files[j].height,
                                    images'[Len(images) + j].width,
                                    images'[Len(images) + j].height) ]_vars

\* an image of 2049 x 1025 pixels has been drawn to a canvas of 1024 x 513
C11_Witness ==
    /\ last = [op |-> "upload_finished", arg |-> "appended"]
    /\ Len(images) = 1
    /\ images[1].width = 1024
    /\ images[1].height = 513

(***************************************************************************)
(* C12.  An ingest whose file selection holds zero files leaves the image  *)
(* list, Error and the Processing flag as they were before the call.       *)
(***************************************************************************)
C12_EmptySelectionNoOp ==
    [][ UploadEmpty =>
          /\ images' = images
          /\ error' = error
          /\ isProcessing' = isProcessing ]_vars

(***************************************************************************)
(* C13.  Every map click sets Location to the clicked coordinates and      *)
(* every address edit sets Address to the typed text, in the step of the   *)
(* event, whatever happens to the geocode call and whether or not a        *)
(* geocoder is available.                                                  *)
(***************************************************************************)
C13_UserDrivenFieldImmediate ==
    [][ /\ \A latLng \in ClickPoints : HandleMapClick(latLng) => location' = latLng
        /\ \A newAddress \in TypedAddresses :
               HandleAddressChange(newAddress) => address' = newAddress ]_vars

(***************************************************************************)
(* C14.  A reverse geocode that fails or returns no result leaves Address  *)
(* unchanged, a forward geocode that fails or returns no result leaves     *)
(* Location unchanged, and no geocode outcome changes Error, the image     *)
(* list or the Processing flag.                                            *)
(***************************************************************************)
C14_GeocodeFailuresSilent ==
    [][ last'.op = "geocode_settled" =>
          /\ error' = error
          /\ images' = images
          /\ isProcessing' = isProcessing
          /\ \A k \in DOMAIN geocodes : \A response \in GeocoderResponses(geocodes[k]) :
                 (/\ GeocodeSettled(k, response)
                  /\ response.outcome = "throws" \/ response.results = <<>>)
                 => /\ geocodes[k].kind = "reverse" => address' = address
                    /\ geocodes[k].kind = "forward" => location' = location ]_vars

\* the forward geocode of a typed address has failed while Error shows a message:
\* Location is still the initial one and the message is still shown
C14_Witness ==
    /\ last = [op |-> "geocode_settled", arg |-> ""]
    /\ geocodes = <<>>
    /\ address = "Nimmanhaemin Rd"
    /\ location = CHIANG_MAI
    /\ error = <<ERR_MIN_IMAGES>>

(***************************************************************************)
(* C15.  When onSubmit throws, Error is set to the message of the          *)
(* exception if it has one and to the generic message otherwise, the image *)
(* list, Location and Address are unchanged, and once no call is pending   *)
(* the submit button is enabled again.                                     *)
(***************************************************************************)
C15_HandlerFailureSurfaced ==
    [][ last' = [op |-> "submit_settled", arg |-> "threw"] =>
          /\ images' = images
          /\ location' = location
          /\ address' = address
          /\ onSubmitCalls' = <<>> => ~pending'
          /\ \A k \in DOMAIN onSubmitCalls : \A err \in Thrown :
                 OnSubmitThrew(k, err) =>
                     error' = <<IF err.message # "" THEN err.message
                                ELSE "An error occurred while registering">> ]_vars

(***************************************************************************)
(* C16.  Every geocode call that succeeds is applied when it resolves,     *)
(* whatever other calls are in flight and in whatever order they were      *)
(* issued: a forward call sets Location to the coordinates found for its   *)
(* address, a reverse call sets Address to the address found for its       *)
(* point.  So of two overlapping calls the one that resolves last decides  *)
(* the final value, and no result is discarded as stale.                   *)
(***************************************************************************)
PlaceAt(point) == CHOOSE place \in Places : place.location = point

PlaceNamed(text) == CHOOSE place \in Places : place.formatted_address = text

C16_LastWriteWins ==
    [][ last'.op = "geocode_settled" =>
          \A k \in DOMAIN geocodes : \A response \in GeocoderResponses(geocodes[k]) :
              (GeocodeSettled(k, response) /\ response.results # <<>>) =>
                  /\ geocodes[k].kind = "forward" =>
                         location' = PlaceNamed(geocodes[k].address).location
                  /\ geocodes[k].kind = "reverse" =>
                         address' = PlaceAt(geocodes[k].location).formatted_address ]_vars

\* "Nimmanhaemin Rd" was typed before "Tha Phae Gate"; the forward call for the
\* first address resolved last and Location is its result
C16_Witness ==
    /\ last = [op |-> "geocode_settled", arg |-> ""]
    /\ geocodes = <<>>
    /\ address = "Tha Phae Gate"
    /\ location = [lat |-> 187900, lng |-> -5000]

(***************************************************************************)
(* C17.  For every decoded image with width >= 1 and height >= 1 both      *)
(* dimensions of the canvas are at least 1 pixel, so every entry appended  *)
(* to the image list is a non-empty encoded image.                         *)
(***************************************************************************)
C17_CanvasNotEmpty ==
    \A i \in DOMAIN images :
        /\ images[i].width >= 1
        /\ images[i].height >= 1
        /\ images[i].base64Length > 0

(***************************************************************************)
(* C18.  In every reachable state every entry of the image list has an     *)
(* effective size, 0.75 times the length of its base64 payload, of at most *)
(* 1 MiB, and so has every image of a submission.                          *)
(***************************************************************************)
C18_EntriesWithinCeiling ==
    /\ \A i \in DOMAIN images : 3 * images[i].base64Length <= 4 * 1024 * 1024
    /\ \A k \in DOMAIN onSubmitCalls : \A i \in DOMAIN onSubmitCalls[k].images :
           3 * onSubmitCalls[k].images[i].base64Length <= 4 * 1024 * 1024

\* a submission is pending whose second image is as large as the ceiling allows
\* (1398101 base64 characters, one less than the payload of the image that is
\* rejected after compression)
C18_Witness ==
    /\ Len(onSubmitCalls) = 1
    /\ Len(onSubmitCalls[1].images) = 3
    /\ onSubmitCalls[1].images[2].base64Length = 1398101
    /\ Len(images) = 3

====
